---- MODULE Spec2Model ----
(***************************************************************************)
(* Model of the OVRLipSync frame-sequence cooker                           *)
(* (UCookFrameSequenceAsync::Activate) and of the WAV loading helpers      *)
(* (UAudioConverterLibrary).                                               *)
(*                                                                         *)
(* Numbers.  A viseme weight or laughter score is a float in [0,1]; it is  *)
(* modelled as an integer count of 0.0001 units, so ONE = 10000 is 1.0,    *)
(* HALF = 5000 is the 0.5f activation threshold and TINY = 1 is the        *)
(* 0.0001f peak threshold.  Products and quotients are exact integer       *)
(* arithmetic with floor division; float rounding is not modelled.         *)
(* Priorities (0.5 .. 1.0) are counted in tenths.                          *)
(*                                                                         *)
(* Indices.  Frames are TLA+ sequences, so frame f of the code is element  *)
(* f + 1 here; viseme channels keep the code's 0-based indices.            *)
(***************************************************************************)
EXTENDS Integers, Sequences, FiniteSets, TLC

\* ------------------------------------------------------------- bounds
\* Largest number of 16-bit samples a header may report.
MaxSamples == 4
\* Number of viseme channels the engine returns per frame (channels 0..N-1).
NumVisemes == 2
\* Iterations of the collection loop explored when the loop makes no progress.
MaxRunaway == 2

\* ---------------------------------------------------------- constants
ONE == 10000
HALF == 5000
TINY == 1
HIGH == (9 * ONE) \div 10
LAUGH == (7 * ONE) \div 10
LipSyncSequenceUpateFrequency == 100
WavHeaderSize == 44
MinClamp == 1
MaxClamp == 24
DefaultSampleRate == 44100
DefaultNumChannels == 2
DefaultBitsPerSample == 16

Visemes == 0 .. (NumVisemes - 1)

Min(a, b) == IF a < b THEN a ELSE b
Clamp(x, lo, hi) == IF x < lo THEN lo ELSE IF x > hi THEN hi ELSE x

\* ------------------------------------------------------------ tables
GetVisemeType(Index) ==
    IF Index \in 10 .. 14 THEN "Vowel"
    ELSE IF Index \in 1 .. 9 THEN "Consonant"
    ELSE "Other"

\* VisemePriority, in tenths; a channel absent from the map weighs 1.0.
VisemePriority(j) ==
    CASE j = 10 -> 10
      [] j = 11 -> 6
      [] j = 12 -> 5
      [] j = 13 -> 9
      [] j = 14 -> 10
      [] j = 1 -> 9
      [] j = 2 -> 7
      [] j = 3 -> 6
      [] j = 4 -> 7
      [] j = 5 -> 7
      [] j = 6 -> 8
      [] j = 7 -> 6
      [] j = 8 -> 7
      [] j = 9 -> 9
      [] OTHER -> 10

\* ------------------------------------------------------------ inputs
\* FVisemeInterpolationSettings values a caller may pass.
SettingsChoices ==
    [bEnableInterpolation : BOOLEAN,
     MaxInterpolationFrames : {0, 2},
     bStrictConsonantLock : BOOLEAN,
     MinHoldFrames : {1, 2}]

\* RawSamples.Num(): empty, exactly a header, header plus data.
RawSamplesNums == {0, WavHeaderSize, WavHeaderSize + 2 * MaxSamples}

\* (SampleRate, NumChannels) pairs a header may report.
AudioFormats ==
    {<<100, 1>>, <<100, 2>>, <<200, 1>>, <<50, 1>>, <<0, 1>>, <<100, 0>>}

\* What FWaveModInfo::ReadWaveInfo may hand back.
WaveInfos ==
    [ok : {TRUE}, fmt : AudioFormats, SampleDataSize : {2 * n : n \in 0 .. MaxSamples}]
    \cup [ok : {FALSE}, fmt : {<<0, 0>>}, SampleDataSize : {0}]

Silent == [j \in Visemes |-> 0]
OneHot(c, v) == [j \in Visemes |-> IF j = c THEN v ELSE 0]
Pair(c) == [j \in Visemes |-> IF j = c THEN HIGH ELSE IF j = c + 1 THEN ONE ELSE 0]
Faint == [j \in Visemes |-> TINY]

\* Results the inference engine may return for a chunk.
EngineOutputs ==
    {[visemes |-> Silent, laughter |-> LAUGH]}
    \cup {[visemes |-> OneHot(c, v), laughter |-> 0] : c \in Visemes, v \in {HIGH, ONE}}
    \cup {[visemes |-> Pair(c), laughter |-> 0] : c \in Visemes \ {NumVisemes - 1}}
    \cup {[visemes |-> Faint, laughter |-> 0]}

VARIABLES
    pc,               \* position of the cook: created, collect, cluster, ...
    RawSamplesNum,    \* RawSamples.Num()
    Settings,         \* InterpolationSettings
    NumChannels, SampleRate, PCMDataSize,
    offs,             \* collection loop counter
    CurrentVisemes, LaughterScore,
    RawVisemeFrames, LaughterScores,
    BlockDominants, BlockPeaks,
    FrameBuffer, Sequence,
    f,                \* smoothing loop counter (frames already emitted)
    broadcasts,       \* onFrameSequenceCooked.Broadcast calls, in order
    inferenceFailed,  \* some ProcessFrame call of this run failed
    FileOnDisk,       \* the file at FilePath: whether it loads, and its bytes
    AudioComponent,   \* the component handed to SetSoundFromDisk (valid or null) and its sounds
    usedFallback,     \* SetSoundFromDisk took the default-parameter branch
    LoadedData,       \* the lengths of the arrays LoadWaveFile returned
    soundCalls        \* SetSoundFromDisk calls made

cookVars ==
    <<pc, RawSamplesNum, Settings, NumChannels, SampleRate, PCMDataSize, offs,
      CurrentVisemes, LaughterScore, RawVisemeFrames, LaughterScores,
      BlockDominants, BlockPeaks, FrameBuffer, Sequence, f, broadcasts,
      inferenceFailed>>

wavVars == <<FileOnDisk, AudioComponent, usedFallback, LoadedData, soundCalls>>

vars == <<cookVars, wavVars>>

\* ------------------------------------------------- derived quantities
ChunkSizeSamples == SampleRate \div LipSyncSequenceUpateFrequency
ChunkSize == NumChannels * ChunkSizeSamples
NumInterpolationFrames == Clamp(Settings.MaxInterpolationFrames, MinClamp, MaxClamp)

\* ------------------------------------------------------------- Init
CookFrameSequence ==
    /\ pc = "created"
    /\ RawSamplesNum \in RawSamplesNums
    /\ Settings \in SettingsChoices
    /\ NumChannels = 0
    /\ SampleRate = 0
    /\ PCMDataSize = 0
    /\ offs = 0
    /\ CurrentVisemes = Silent
    /\ LaughterScore = 0
    /\ RawVisemeFrames = <<>>
    /\ LaughterScores = <<>>
    /\ BlockDominants = <<>>
    /\ BlockPeaks = <<>>
    /\ FrameBuffer = <<>>
    /\ Sequence = <<>>
    /\ f = 0
    /\ broadcasts = <<>>
    /\ inferenceFailed = FALSE

\* No file is being loaded while a cook is modelled.
NoWav ==
    /\ FileOnDisk = [loads |-> FALSE, Num |-> 0, magic |-> "none",
                     channels |-> <<0, 0>>, rate |-> <<0, 0, 0, 0>>, bits |-> <<0, 0>>]
    /\ AudioComponent = [valid |-> FALSE, Sound |-> <<>>]
    /\ usedFallback = FALSE
    /\ LoadedData = <<>>
    /\ soundCalls = 0

Init == CookFrameSequence /\ NoWav

Broadcast(seq, success) == Append(broadcasts, [sequence |-> seq, success |-> success])

\* --------------------------------------------------------- Activate
ActivateTooShort ==
    /\ pc = "created"
    /\ RawSamplesNum <= WavHeaderSize
    /\ broadcasts' = Broadcast("null", FALSE)
    /\ pc' = "done"
    /\ UNCHANGED <<RawSamplesNum, Settings, NumChannels, SampleRate, PCMDataSize, offs,
                   CurrentVisemes, LaughterScore, RawVisemeFrames, LaughterScores,
                   BlockDominants, BlockPeaks, FrameBuffer, Sequence, f, inferenceFailed, wavVars>>

ActivateParsed ==
    /\ pc = "created"
    /\ RawSamplesNum > WavHeaderSize
    /\ \E waveInfo \in WaveInfos :
         IF ~waveInfo.ok
         THEN /\ broadcasts' = Broadcast("null", FALSE)
              /\ pc' = "done"
              /\ UNCHANGED <<NumChannels, SampleRate, PCMDataSize>>
         ELSE /\ NumChannels' = waveInfo.fmt[2]
              /\ SampleRate' = waveInfo.fmt[1]
              /\ PCMDataSize' = waveInfo.SampleDataSize \div 2
              /\ IF waveInfo.fmt[2] <= 0 \/ waveInfo.fmt[1] <= 0
                 THEN /\ broadcasts' = Broadcast("null", FALSE)
                      /\ pc' = "done"
                 ELSE /\ pc' = "collect"
                      /\ UNCHANGED broadcasts
    /\ UNCHANGED <<RawSamplesNum, Settings, offs,
                   CurrentVisemes, LaughterScore, RawVisemeFrames, LaughterScores,
                   BlockDominants, BlockPeaks, FrameBuffer, Sequence, f, inferenceFailed, wavVars>>

Activate == ActivateTooShort \/ ActivateParsed

\* ----------------------------------------------- raw frame collection
LoopCondition(o, chunk, size) == o + chunk < size

\* TArray::Add.  A loop whose chunk is empty never advances offs and appends for
\* ever; of such an array only the newest MaxRunaway entries are kept.
Add(array, item, chunk) ==
    IF chunk > 0 \/ Len(array) < MaxRunaway
    THEN Append(array, item)
    ELSE Append(Tail(array), item)

\* What a ProcessFrame call may do to its out-parameters: a successful call
\* stores an engine result; a failed call leaves them as they were (a vector of
\* zeros before the first success).  ProcessFrame returns nothing to Activate.
ProcessFrame(visemes, laughter) ==
    {[visemes |-> out.visemes, laughter |-> out.laughter, failed |-> FALSE] :
        out \in EngineOutputs}
    \cup {[visemes |-> visemes, laughter |-> laughter, failed |-> TRUE]}

\* One iteration of the collection loop: ProcessFrame, then both Adds.
CollectFrame ==
    /\ pc = "collect"
    /\ LoopCondition(offs, ChunkSize, PCMDataSize)
    /\ \E r \in ProcessFrame(CurrentVisemes, LaughterScore) :
         /\ CurrentVisemes' = r.visemes
         /\ LaughterScore' = r.laughter
         /\ inferenceFailed' = (inferenceFailed \/ r.failed)
    /\ RawVisemeFrames' = Add(RawVisemeFrames, CurrentVisemes', ChunkSize)
    /\ LaughterScores' = Add(LaughterScores, LaughterScore', ChunkSize)
    /\ offs' = offs + ChunkSize
    /\ UNCHANGED <<pc, RawSamplesNum, Settings, NumChannels, SampleRate, PCMDataSize,
                   BlockDominants, BlockPeaks, FrameBuffer, Sequence, f, broadcasts, wavVars>>

\* ------------------------------------------- Step 1: short activations
IsActive(value) == value > HALF

IsShort(Duration, hold) == Duration < hold

ZeroRun(frames, i, from, to) ==
    [r \in 1 .. Len(frames) |->
        IF r >= from /\ r < to THEN [frames[r] EXCEPT ![i] = 0] ELSE frames[r]]

\* The scan of channel i from frame fr on; Start = -1 when no run is open.
RECURSIVE ScanChannel(_, _, _, _, _)
ScanChannel(frames, i, fr, Start, hold) ==
    IF fr > Len(frames) THEN frames
    ELSE IF IsActive(frames[fr][i])
         THEN ScanChannel(frames, i, fr + 1, IF Start = -1 THEN fr ELSE Start, hold)
         ELSE IF Start # -1
              THEN ScanChannel(IF IsShort(fr - Start, hold)
                                 THEN ZeroRun(frames, i, Start, fr)
                                 ELSE frames,
                               i, fr + 1, -1, hold)
              ELSE ScanChannel(frames, i, fr + 1, -1, hold)

RECURSIVE FilterChannels(_, _, _, _)
FilterChannels(frames, i, n, hold) ==
    IF i >= n THEN frames
    ELSE FilterChannels(ScanChannel(frames, i, 1, -1, hold), i + 1, n, hold)

FilterShortVisemes(frames, hold) == FilterChannels(frames, 0, NumVisemes, hold)

\* The collection loop ends and Step 1 runs over the collected frames.
FilterShort ==
    /\ pc = "collect"
    /\ ~LoopCondition(offs, ChunkSize, PCMDataSize)
    /\ RawVisemeFrames' = FilterShortVisemes(RawVisemeFrames, Settings.MinHoldFrames)
    /\ pc' = "cluster"
    /\ UNCHANGED <<RawSamplesNum, Settings, NumChannels, SampleRate, PCMDataSize, offs,
                   CurrentVisemes, LaughterScore, LaughterScores,
                   BlockDominants, BlockPeaks, FrameBuffer, Sequence, f, broadcasts,
                   inferenceFailed, wavVars>>

\* ------------------------------------------------ Step 2: clustering
\* Frames of the block that starts at code frame blockStart: blockStart+1 .. BlockEnd.
BlockEnd(blockStart, n, total) == Min(blockStart + n, total)

RECURSIVE SumChannel(_, _, _, _)
SumChannel(frames, j, fr, blockEnd) ==
    IF fr > blockEnd THEN 0 ELSE frames[fr][j] + SumChannel(frames, j, fr + 1, blockEnd)

WeightedSum(frames, j, blockStart, blockEnd) ==
    SumChannel(frames, j, blockStart + 1, blockEnd) * VisemePriority(j)

\* Variant: a tie replaces the running maximum, so the last tied channel wins.
IsNewMaxOrEqual(Sum, MaxSum) == Sum >= MaxSum

IsNewMax(Sum, MaxSum) == Sum > MaxSum

\* The scan over channels j .. NumVisemes-1 with the running (DominantIndex, MaxSum).
RECURSIVE DominantScan(_, _, _, _, _, _)
DominantScan(frames, blockStart, blockEnd, j, DominantIndex, MaxSum) ==
    IF j >= NumVisemes THEN DominantIndex
    ELSE LET Sum == WeightedSum(frames, j, blockStart, blockEnd)
         IN IF IsNewMax(Sum, MaxSum)
            THEN DominantScan(frames, blockStart, blockEnd, j + 1, j, Sum)
            ELSE DominantScan(frames, blockStart, blockEnd, j + 1, DominantIndex, MaxSum)

RECURSIVE PeakScan(_, _, _, _, _)
PeakScan(frames, j, fr, blockEnd, PeakValue) ==
    IF fr > blockEnd THEN PeakValue
    ELSE PeakScan(frames, j, fr + 1, blockEnd,
                  IF frames[fr][j] > PeakValue THEN frames[fr][j] ELSE PeakValue)

BlockDominant(frames, blockStart, n) ==
    DominantScan(frames, blockStart, BlockEnd(blockStart, n, Len(frames)), 0, -1, 0)

BlockPeak(frames, blockStart, n) ==
    LET d == BlockDominant(frames, blockStart, n)
    IN IF d < 0 THEN 0
       ELSE PeakScan(frames, d, blockStart + 1, BlockEnd(blockStart, n, Len(frames)), 0)

\* Number of blocks the loop "blockStart += n" visits.
NumBlocks(total, n) == (total + n - 1) \div n

Cluster ==
    /\ pc = "cluster"
    /\ LET n == NumInterpolationFrames
           nb == NumBlocks(Len(RawVisemeFrames), n)
       IN /\ BlockDominants' = [b \in 1 .. nb |-> BlockDominant(RawVisemeFrames, (b - 1) * n, n)]
          /\ BlockPeaks' = [b \in 1 .. nb |-> BlockPeak(RawVisemeFrames, (b - 1) * n, n)]
    /\ pc' = "normalize"
    /\ UNCHANGED <<RawSamplesNum, Settings, NumChannels, SampleRate, PCMDataSize, offs,
                   CurrentVisemes, LaughterScore, RawVisemeFrames, LaughterScores,
                   FrameBuffer, Sequence, f, broadcasts, inferenceFailed, wavVars>>

\* ----------------------------------- Step 3: normalise and blend blocks
SkipBlock(Peak) == Peak <= TINY

Preserve(j, localIndex, DominantIndex, PrevDominant, NextDominant, IsFirstBlock, IsLastBlock, n) ==
    \/ j = DominantIndex
    \/ (j = PrevDominant /\ localIndex < n \div 2 /\ ~IsFirstBlock)
    \/ (j = NextDominant /\ localIndex >= n \div 2 /\ ~IsLastBlock)

Scaled(value, Peak) == Clamp((value * ONE) \div Peak, 0, ONE)

\* The value Step 3 leaves in channel j of frame fr (1-based), given Step 2's tables.
NormalizedValue(frames, doms, peaks, fr, j, n) ==
    LET blockIndex == (fr - 1) \div n
        blockStart == blockIndex * n
        localIndex == (fr - 1) - blockStart
        DominantIndex == doms[blockIndex + 1]
        Peak == peaks[blockIndex + 1]
        IsFirstBlock == blockIndex = 0
        IsLastBlock == blockIndex = Len(doms) - 1
        PrevDominant == IF blockIndex > 0 THEN doms[blockIndex] ELSE -1
        NextDominant == IF blockIndex < Len(doms) - 1 THEN doms[blockIndex + 2] ELSE -1
    IN IF SkipBlock(Peak) THEN frames[fr][j]
       ELSE IF Preserve(j, localIndex, DominantIndex, PrevDominant, NextDominant,
                        IsFirstBlock, IsLastBlock, n)
            THEN IF j = DominantIndex THEN Scaled(frames[fr][j], Peak) ELSE frames[fr][j]
            ELSE 0

Normalize ==
    /\ pc = "normalize"
    /\ RawVisemeFrames' =
         [fr \in 1 .. Len(RawVisemeFrames) |->
            [j \in Visemes |->
               NormalizedValue(RawVisemeFrames, BlockDominants, BlockPeaks, fr, j,
                               NumInterpolationFrames)]]
    /\ pc' = "smooth"
    /\ UNCHANGED <<RawSamplesNum, Settings, NumChannels, SampleRate, PCMDataSize, offs,
                   CurrentVisemes, LaughterScore, LaughterScores,
                   BlockDominants, BlockPeaks, FrameBuffer, Sequence, f, broadcasts,
                   inferenceFailed, wavVars>>

\* ------------------------------------------- Step 4: final smoothing
\* Weight of the history frame at FrameBuffer index j (0-based), times (n + 1).
Weight(j, n) == (n + 1) - (j + 1)

RECURSIVE HistorySum(_, _, _, _)
HistorySum(buffer, i, j, n) ==
    IF j >= Len(buffer) THEN 0
    ELSE buffer[j + 1][i] * Weight(j, n) + HistorySum(buffer, i, j + 1, n)

RECURSIVE HistoryWeight(_, _, _)
HistoryWeight(buffer, j, n) ==
    IF j >= Len(buffer) THEN 0 ELSE Weight(j, n) + HistoryWeight(buffer, j + 1, n)

\* WeightedSum / TotalWeight of channel i.
Average(Current, buffer, i, n) ==
    (Current[i] * (n + 1) + HistorySum(buffer, i, 0, n)) \div ((n + 1) + HistoryWeight(buffer, 0, n))

\* Variant: the lock rescales every channel, whatever its type.
IsLockedAnyType(Current, i, lock) ==
    lock /\ Current[i] > HALF

IsLocked(Current, i, lock) ==
    lock /\ GetVisemeType(i) = "Consonant" /\ Current[i] > HALF

SmoothedValue(Current, buffer, i, n, lock) ==
    LET Value == Average(Current, buffer, i, n)
    IN IF IsLocked(Current, i, lock)
       THEN Clamp((Value * ONE) \div Current[i], 0, ONE)
       ELSE Value

\* Variant: the enable flag is ignored.
UseSmoothingAlways(enabled, buffer) == Len(buffer) > 0

UseSmoothing(enabled, buffer) == enabled /\ Len(buffer) > 0

\* The frame handed to Sequence->Add for Current.
Emitted(Current, buffer, n, enabled, lock) ==
    IF UseSmoothing(enabled, buffer)
    THEN [i \in Visemes |-> SmoothedValue(Current, buffer, i, n, lock)]
    ELSE Current

\* FrameBuffer.Insert(frame, 0) followed by the truncation to n entries.
PushHistory(buffer, frame, n) ==
    LET inserted == <<frame>> \o buffer
    IN IF Len(inserted) > n THEN SubSeq(inserted, 1, Len(inserted) - 1) ELSE inserted

\* Variant: the smoothed frame is fed back into the history.
HistoryFrameSmoothed(Current, emitted) == emitted

\* The frame FrameBuffer.Insert receives.
HistoryFrame(Current, emitted) == Current

SmoothFrame ==
    /\ pc = "smooth"
    /\ f < Len(RawVisemeFrames)
    /\ LET Current == RawVisemeFrames[f + 1]
           out == Emitted(Current, FrameBuffer, NumInterpolationFrames,
                          Settings.bEnableInterpolation, Settings.bStrictConsonantLock)
       IN /\ Sequence' = Append(Sequence, [visemes |-> out, laughter |-> LaughterScores[f + 1]])
          /\ FrameBuffer' = PushHistory(FrameBuffer, HistoryFrame(Current, out),
                                        NumInterpolationFrames)
    /\ f' = f + 1
    /\ UNCHANGED <<pc, RawSamplesNum, Settings, NumChannels, SampleRate, PCMDataSize, offs,
                   CurrentVisemes, LaughterScore, RawVisemeFrames, LaughterScores,
                   BlockDominants, BlockPeaks, broadcasts, inferenceFailed, wavVars>>

\* -------------------------------------------------------- completion
\* The worker queues the completion task for the game thread.
PostCompletion ==
    /\ pc = "smooth"
    /\ f >= Len(RawVisemeFrames)
    /\ pc' = "posted"
    /\ UNCHANGED <<RawSamplesNum, Settings, NumChannels, SampleRate, PCMDataSize, offs,
                   CurrentVisemes, LaughterScore, RawVisemeFrames, LaughterScores,
                   BlockDominants, BlockPeaks, FrameBuffer, Sequence, f, broadcasts,
                   inferenceFailed, wavVars>>

\* The game thread runs the queued task.
Deliver ==
    /\ pc = "posted"
    /\ broadcasts' = Broadcast("Sequence", TRUE)
    /\ pc' = "done"
    /\ UNCHANGED <<RawSamplesNum, Settings, NumChannels, SampleRate, PCMDataSize, offs,
                   CurrentVisemes, LaughterScore, RawVisemeFrames, LaughterScores,
                   BlockDominants, BlockPeaks, FrameBuffer, Sequence, f, inferenceFailed, wavVars>>

Worker == CollectFrame \/ FilterShort \/ Cluster \/ Normalize \/ SmoothFrame \/ PostCompletion

Next == Activate \/ Worker \/ Deliver

Spec == Init /\ [][Next]_vars

\* Activate runs when called, the worker thread keeps running, and the game
\* thread runs the tasks queued for it.
FairSpec == Spec /\ WF_vars(Activate) /\ WF_vars(Worker) /\ WF_vars(Deliver)

\* ===================================================== WAV loading
\* Little-endian reads of the header fields, as the pointer casts do.
ReadInt16(b) ==
    LET u == b[1] + 256 * b[2] IN IF u >= 32768 THEN u - 65536 ELSE u

ReadInt32(b) ==
    b[1] + 256 * b[2] + 65536 * b[3] + 16777216 * (IF b[4] >= 128 THEN b[4] - 256 ELSE b[4])

\* Files that may sit on disk.  magic is the tag in bytes 0..3; channels, rate and
\* bits are the bytes at offsets 22..23, 24..27 and 34..35.  A file too short to
\* hold those offsets has none of them.
WavFiles ==
    [loads : BOOLEAN, Num : {45, 100}, magic : {"RIFF", "JUNK"},
     channels : {<<2, 0>>, <<1, 0>>, <<0, 0>>, <<255, 255>>},
     rate : {<<68, 172, 0, 0>>, <<64, 31, 0, 0>>, <<0, 0, 0, 0>>, <<255, 255, 255, 255>>},
     bits : {<<16, 0>>, <<8, 0>>, <<0, 0>>}]
    \cup [loads : BOOLEAN, Num : {0, WavHeaderSize}, magic : {"RIFF", "JUNK"},
          channels : {<<0, 0>>}, rate : {<<0, 0, 0, 0>>}, bits : {<<0, 0>>}]

\* ParseWavHeader: the return value and the four out-parameters.
HeaderIsParsable(Num) == Num > WavHeaderSize

ParseWavHeader(FileData) ==
    IF ~HeaderIsParsable(FileData.Num)
    THEN [ok |-> FALSE, SampleRate |-> 0, NumChannels |-> 0, BitsPerSample |-> 0,
          HeaderSize |-> 0]
    ELSE [ok |-> TRUE,
          SampleRate |-> ReadInt32(FileData.rate),
          NumChannels |-> ReadInt16(FileData.channels),
          BitsPerSample |-> ReadInt16(FileData.bits),
          HeaderSize |-> WavHeaderSize]

DefaultParameters ==
    [ok |-> FALSE, SampleRate |-> DefaultSampleRate, NumChannels |-> DefaultNumChannels,
     BitsPerSample |-> DefaultBitsPerSample, HeaderSize |-> WavHeaderSize]

\* The parameters SetSoundFromDisk goes on with.
SoundParameters(FileData) ==
    LET parsed == ParseWavHeader(FileData)
    IN IF ~parsed.ok THEN DefaultParameters ELSE parsed

\* The USoundWaveProcedural built from the file.  Duration is kept as the
\* fraction DurationBytes / (DurationRate / 8) seconds.
BuildSoundWave(FileData, p) ==
    [SampleRate |-> p.SampleRate,
     NumChannels |-> p.NumChannels,
     DurationBytes |-> FileData.Num - p.HeaderSize,
     DurationRate |-> p.SampleRate * p.NumChannels * p.BitsPerSample,
     QueuedBytes |-> FileData.Num - p.HeaderSize]

\* AudioComponent->SetSound(SoundWave), when the component is not null.
SetSound(SoundWave) ==
    IF AudioComponent.valid
    THEN [AudioComponent EXCEPT !.Sound = <<SoundWave>>]
    ELSE AudioComponent

SetSoundFromDisk ==
    /\ soundCalls = 0
    /\ soundCalls' = 1
    /\ IF ~FileOnDisk.loads
       THEN UNCHANGED <<AudioComponent, usedFallback>>
       ELSE LET p == SoundParameters(FileOnDisk)
            IN /\ usedFallback' = ~p.ok
               /\ IF FileOnDisk.Num <= p.HeaderSize
                  THEN UNCHANGED AudioComponent
                  ELSE AudioComponent' = SetSound(BuildSoundWave(FileOnDisk, p))
    /\ UNCHANGED <<FileOnDisk, LoadedData, cookVars>>

LoadWaveFile ==
    /\ LoadedData = <<>>
    /\ LoadedData' =
         IF ~FileOnDisk.loads THEN <<0>>
         ELSE IF FileOnDisk.Num <= WavHeaderSize THEN <<0>>
         ELSE <<FileOnDisk.Num>>
    /\ UNCHANGED <<FileOnDisk, AudioComponent, usedFallback, soundCalls, cookVars>>

\* No cook runs while a file is loaded.
NoCook ==
    /\ pc = "idle"
    /\ RawSamplesNum = 0
    /\ Settings = [bEnableInterpolation |-> TRUE, MaxInterpolationFrames |-> 6,
                   bStrictConsonantLock |-> TRUE, MinHoldFrames |-> 2]
    /\ NumChannels = 0
    /\ SampleRate = 0
    /\ PCMDataSize = 0
    /\ offs = 0
    /\ CurrentVisemes = Silent
    /\ LaughterScore = 0
    /\ RawVisemeFrames = <<>>
    /\ LaughterScores = <<>>
    /\ BlockDominants = <<>>
    /\ BlockPeaks = <<>>
    /\ FrameBuffer = <<>>
    /\ Sequence = <<>>
    /\ f = 0
    /\ broadcasts = <<>>
    /\ inferenceFailed = FALSE

WavInit ==
    /\ NoCook
    /\ FileOnDisk \in WavFiles
    /\ AudioComponent \in [valid : BOOLEAN, Sound : {<<>>}]
    /\ usedFallback = FALSE
    /\ LoadedData = <<>>
    /\ soundCalls = 0

WavNext == SetSoundFromDisk \/ LoadWaveFile

WavSpec == WavInit /\ [][WavNext]_vars

\* ============================================================ properties
Succeeded == pc = "done" /\ broadcasts = <<[sequence |-> "Sequence", success |-> TRUE]>>

AfterNormalize == pc \in {"smooth", "posted"} \/ Succeeded

RECURSIVE SumSet(_, _)
SumSet(fn, S) ==
    IF S = {} THEN 0
    ELSE LET x == CHOOSE y \in S : TRUE IN fn[x] + SumSet(fn, S \ {x})

MaxOfSet(S) == CHOOSE m \in S : \A x \in S : x <= m

Abs(x) == IF x < 0 THEN -x ELSE x

\* Frames (1-based) of block b (1-based) of the collected sequence.
FramesOfBlock(b) ==
    {fr \in 1 .. Len(RawVisemeFrames) : (fr - 1) \div NumInterpolationFrames = b - 1}

\* C1: for a valid buffer whose chunk holds at least one sample, a finished cook
\* hands back floor(PCMDataSize / ChunkSize) frames.
C1_FrameCount ==
    (Succeeded /\ ChunkSize > 0) => Len(Sequence) = PCMDataSize \div ChunkSize

\* C2: every Activate is answered by exactly one broadcast: one is eventually
\* made, and never a second.
C2_DeliveredOnce == <>(Len(broadcasts) = 1) /\ [](Len(broadcasts) <= 1)

\* C3: a run in which some inference call failed broadcasts only (null, false).
C3_FailureReported ==
    inferenceFailed =>
        \A b \in 1 .. Len(broadcasts) :
            broadcasts[b] = [sequence |-> "null", success |-> FALSE]

\* C4: Step 1 zeroes every maximal above-0.5 run shorter than MinHoldFrames, a run
\* that reaches the last frame included, and leaves the longer runs as they were.
C4_IsRun(frames, i, a, b) ==
    /\ a <= b
    /\ \A r \in a .. b : frames[r][i] > HALF
    /\ (a = 1 \/ frames[a - 1][i] <= HALF)
    /\ (b = Len(frames) \/ frames[b + 1][i] <= HALF)

C4_Filtered(old, new, hold) ==
    \A i \in Visemes : \A a \in 1 .. Len(old) : \A b \in a .. Len(old) :
        C4_IsRun(old, i, a, b) =>
            IF b - a + 1 < hold
            THEN \A r \in a .. b : new[r][i] = 0
            ELSE \A r \in a .. b : new[r][i] = old[r][i]

C4_ShortRunsZeroed ==
    [][(pc = "collect" /\ pc' = "cluster")
         => C4_Filtered(RawVisemeFrames, RawVisemeFrames', Settings.MinHoldFrames)]_vars

\* C5: Step 2 records, for every block, the lowest-indexed channel of maximal
\* priority-weighted sum and that channel's largest value in the block, or
\* (-1, 0) when no weighted sum is positive.
C5_Weighted(b, j) ==
    SumSet([fr \in FramesOfBlock(b) |-> RawVisemeFrames[fr][j]], FramesOfBlock(b))
        * VisemePriority(j)

C5_BlockOk(b) ==
    LET d == BlockDominants[b]
    IN IF \A j \in Visemes : C5_Weighted(b, j) <= 0
       THEN d = -1 /\ BlockPeaks[b] = 0
       ELSE /\ d \in Visemes
            /\ \A j \in Visemes : C5_Weighted(b, j) <= C5_Weighted(b, d)
            /\ \A j \in Visemes : j < d => C5_Weighted(b, j) < C5_Weighted(b, d)
            /\ BlockPeaks[b] = MaxOfSet({RawVisemeFrames[fr][d] : fr \in FramesOfBlock(b)})

C5_DominantIsMax ==
    pc = "normalize" =>
        /\ Len(BlockDominants) = Len(BlockPeaks)
        /\ \A fr \in 1 .. Len(RawVisemeFrames) :
               (fr - 1) \div NumInterpolationFrames + 1 \in 1 .. Len(BlockDominants)
        /\ \A b \in 1 .. Len(BlockDominants) : FramesOfBlock(b) # {} /\ C5_BlockOk(b)

\* A block of two frames in which two channels tie for the largest weighted sum.
C5_Witness ==
    /\ pc = "normalize"
    /\ \E b \in 1 .. Len(BlockDominants) :
         /\ Cardinality(FramesOfBlock(b)) = 2
         /\ \E j \in Visemes :
              /\ j > BlockDominants[b]
              /\ BlockDominants[b] >= 0
              /\ C5_Weighted(b, j) = C5_Weighted(b, BlockDominants[b])

\* C6: after Step 3 a block whose dominant peak exceeded 0.0001 peaks at 1.0 in
\* its dominant channel, and in every block every value is 0 except in the
\* dominant channel and in the blended neighbour channels.
C6_BlockOk(b) ==
    LET n == NumInterpolationFrames
        d == BlockDominants[b]
        prev == IF b > 1 THEN BlockDominants[b - 1] ELSE -1
        next == IF b < Len(BlockDominants) THEN BlockDominants[b + 1] ELSE -1
    IN /\ (d >= 0 /\ BlockPeaks[b] > TINY)
            => MaxOfSet({RawVisemeFrames[fr][d] : fr \in FramesOfBlock(b)}) = ONE
       /\ \A fr \in FramesOfBlock(b) : \A j \in Visemes :
            LET localIndex == (fr - 1) - (b - 1) * n
            IN \/ RawVisemeFrames[fr][j] = 0
               \/ j = d
               \/ (j = prev /\ b > 1 /\ localIndex < n \div 2)
               \/ (j = next /\ b < Len(BlockDominants) /\ localIndex >= n \div 2)

C6_Normalized ==
    AfterNormalize => \A b \in 1 .. Len(BlockDominants) : C6_BlockOk(b)

\* C8: with interpolation disabled the output is the filtered and clustered
\* frames, one entry per frame, in order, each with its chunk's laughter score.
C8_DisabledIsIdentity ==
    (~Settings.bEnableInterpolation /\ AfterNormalize) =>
        /\ Len(Sequence) = f
        /\ (pc # "smooth" => f = Len(RawVisemeFrames))
        /\ \A k \in 1 .. Len(Sequence) :
               Sequence[k] = [visemes |-> RawVisemeFrames[k], laughter |-> LaughterScores[k]]

\* A finished cook without interpolation whose frames differ from one another and
\* whose second frame the smoother would have changed.
C8_Witness ==
    /\ ~Settings.bEnableInterpolation
    /\ Succeeded
    /\ Len(Sequence) >= 2
    /\ Sequence[1] # Sequence[2]
    /\ Emitted(RawVisemeFrames[2], <<RawVisemeFrames[1]>>, NumInterpolationFrames,
               TRUE, Settings.bStrictConsonantLock) # RawVisemeFrames[2]

\* C9 as stated: the history holds at most NumInterpolationFrames entries and its
\* entry at lag j is the output frame emitted j frames earlier.
C9_HistoryIsOutput ==
    AfterNormalize =>
        /\ Len(FrameBuffer) <= NumInterpolationFrames
        /\ \A j \in 1 .. Len(FrameBuffer) : FrameBuffer[j] = Sequence[f - j + 1].visemes

\* C9 amended: the history holds the last min(f, NumInterpolationFrames) frames as
\* they were before smoothing, newest first.
C9_HistoryIsInput ==
    AfterNormalize =>
        /\ Len(FrameBuffer) = Min(f, NumInterpolationFrames)
        /\ \A j \in 1 .. Len(FrameBuffer) : FrameBuffer[j] = RawVisemeFrames[f - j + 1]

\* The smoother changed the newest frame, and the history is full and has
\* already dropped a frame.
C9_Witness ==
    /\ pc = "smooth"
    /\ Settings.bEnableInterpolation
    /\ f > NumInterpolationFrames
    /\ Len(FrameBuffer) = NumInterpolationFrames
    /\ Sequence[f].visemes # RawVisemeFrames[f]

\* The plain weighted average of channel i: the current value with weight 1 and
\* the history entry at lag j with weight 1 - j / (n + 1).
C10_Plain(Current, buffer, i, n) ==
    LET lags == 1 .. Len(buffer)
    IN (Current[i] * (n + 1) + SumSet([j \in lags |-> buffer[j][i] * (n + 1 - j)], lags))
         \div ((n + 1) + SumSet([j \in lags |-> n + 1 - j], lags))

C10_Rescaled(i) ==
    /\ Settings.bStrictConsonantLock
    /\ i \in 1 .. 9
    /\ RawVisemeFrames[f + 1][i] > HALF

C10_SmoothingStep ==
    /\ pc = "smooth"
    /\ f' = f + 1
    /\ Settings.bEnableInterpolation
    /\ FrameBuffer # <<>>

\* C10 as stated: a rescaled consonant value is no farther from the current value
\* than the plain average is; every other value is the plain average.
C10_TowardRaw ==
    [][C10_SmoothingStep =>
         \A i \in Visemes :
            LET cur == RawVisemeFrames[f + 1][i]
                plain == C10_Plain(RawVisemeFrames[f + 1], FrameBuffer, i, NumInterpolationFrames)
                out == Sequence'[f + 1].visemes[i]
            IN IF C10_Rescaled(i)
               THEN Abs(out - cur) <= Abs(plain - cur)
               ELSE out = plain]_vars

\* C10 amended: a rescaled consonant value is the plain average divided by the
\* current value, at most 1.0 and never below the plain average; every other
\* value is the plain average.
C10_Boosted ==
    [][C10_SmoothingStep =>
         \A i \in Visemes :
            LET cur == RawVisemeFrames[f + 1][i]
                plain == C10_Plain(RawVisemeFrames[f + 1], FrameBuffer, i, NumInterpolationFrames)
                out == Sequence'[f + 1].visemes[i]
            IN IF C10_Rescaled(i)
               THEN out = Min(ONE, (plain * ONE) \div cur) /\ out >= plain
               ELSE out = plain]_vars

\* The second frame's consonant channel 1 was at 0.9 after a frame at 1.0, and
\* was emitted as 1.0.
C10_Witness ==
    /\ pc = "smooth"
    /\ f = 2
    /\ Settings.bEnableInterpolation
    /\ Settings.bStrictConsonantLock
    /\ NumInterpolationFrames = 2
    /\ RawVisemeFrames[1][1] = ONE
    /\ RawVisemeFrames[2][1] = HIGH
    /\ Sequence[2].visemes[1] = ONE

\* C7: a loaded file longer than 44 bytes whose header is corrupted gets the
\* default parameters, and a call that took the fallback still sets a sound.
DefaultSound(Num) ==
    [SampleRate |-> DefaultSampleRate,
     NumChannels |-> DefaultNumChannels,
     DurationBytes |-> Num - WavHeaderSize,
     DurationRate |-> DefaultSampleRate * DefaultNumChannels * DefaultBitsPerSample,
     QueuedBytes |-> Num - WavHeaderSize]

C7_MalformedHeaderFallback ==
    (soundCalls = 1 /\ FileOnDisk.loads /\ AudioComponent.valid) =>
        /\ (FileOnDisk.Num > WavHeaderSize /\ FileOnDisk.magic # "RIFF")
              => (usedFallback /\ AudioComponent.Sound = <<DefaultSound(FileOnDisk.Num)>>)
        /\ usedFallback => AudioComponent.Sound # <<>>
====
